---- MODULE Spec2Model ----
(***************************************************************************)
(* Path matching of the navigation Item component                          *)
(* (src/src/components/Nav/components/Item/Item.tsx).                      *)
(*                                                                         *)
(* A string is a sequence of one-character strings.  An optional value of  *)
(* the source (a property that may be undefined) is a record with a        *)
(* "defined" flag; an optional boolean is one of the strings "undefined",  *)
(* "true", "false".                                                        *)
(***************************************************************************)
EXTENDS Integers, Sequences, FiniteSets, TLC

VARIABLES props, location, pc, matchState, expanded, rendered, active,
          normalized, renormalized,
          mounted, collapsed, onNavDismiss, calls, defaultPrevented

\* The results of normalizePathname applied once and twice.
normalizeVars == <<normalized, renormalized>>

\* The life cycle of the Item, navBarCollapsed().matches, the context's
\* onNavDismiss, and what the last click did: the callbacks it invoked and
\* whether it called event.preventDefault().
clickVars == <<mounted, collapsed, onNavDismiss, calls, defaultPrevented>>

vars == <<props, location, pc, matchState, expanded, rendered, active,
          normalizeVars, clickVars>>

(***************************************************************************)
(* Bounds of the model.                                                    *)
(***************************************************************************)
MaxLen == 3
MaxPaths == 2
MaxSub == 3

(***************************************************************************)
(* Values.                                                                 *)
(***************************************************************************)
Undefined == [defined |-> FALSE]
Some(v) == [defined |-> TRUE, value |-> v]

OptBool == {"undefined", "true", "false"}

\* No Item is mounted and nothing has been clicked.
NotClicked ==
    /\ mounted = "constructed"
    /\ collapsed = FALSE
    /\ onNavDismiss = Undefined
    /\ calls = <<>>
    /\ defaultPrevented = FALSE

\* Nothing has been normalized.
NotNormalized == normalized = Undefined /\ renormalized = Undefined

\* The enum MatchState.
MatchForced == "MatchForced"
MatchUrl == "MatchUrl"
MatchPaths == "MatchPaths"
Excluded == "Excluded"
NoMatch == "NoMatch"
MatchState == {MatchForced, MatchUrl, MatchPaths, Excluded, NoMatch}

(***************************************************************************)
(* Strings.                                                                *)
(***************************************************************************)
Chars == {"/", "a", "?", "#"}

StringsUpTo(alphabet, n) == UNION {[1..k -> alphabet] : k \in 0..n}

\* String.prototype.startsWith / endsWith
startsWith(s, p) == Len(p) <= Len(s) /\ SubSeq(s, 1, Len(p)) = p
endsWith(s, c) == Len(s) > 0 /\ s[Len(s)] = c

\* s.split(c)[0]: the part of s before the first c, all of s when it has none.
splitFirst(s, c) ==
    IF \E i \in 1..Len(s) : s[i] = c
    THEN LET first == CHOOSE i \in 1..Len(s) :
                         s[i] = c /\ \A j \in 1..(i - 1) : s[j] # c
         IN SubSeq(s, 1, first - 1)
    ELSE s

\* Faulty variant: a "/" is appended also to a path that ends with one.
normalizePathname_AlwaysAppend(pathname) ==
    Append(splitFirst(splitFirst(pathname, "?"), "#"), "/")

\* Faulty variant: the trailing "/" is not appended.
normalizePathname_NoTrailingSlash(pathname) ==
    splitFirst(splitFirst(pathname, "?"), "#")

normalizePathname(pathname) ==
    LET barePathname == splitFirst(splitFirst(pathname, "?"), "#")
    IN IF endsWith(barePathname, "/") THEN barePathname
       ELSE Append(barePathname, "/")

\* Faulty variant: the location is compared as given.
safeEqual_RawLocation(loc, path) == loc = normalizePathname(path)

safeEqual(loc, path) == normalizePathname(loc) = normalizePathname(path)

safeStartsWith(loc, path) ==
    startsWith(normalizePathname(loc), normalizePathname(path))

\* Array.prototype.some over an optional array: `arr && arr.some(f)`.
somePath(arr, loc) ==
    arr.defined /\ \E i \in 1..Len(arr.value) : safeStartsWith(loc, arr.value[i])

\* Faulty variant: exactMatch is ignored, the url is always compared as a prefix.
matchStateForItem_IgnoreExact(item, loc) ==
    IF ~item.url.defined THEN NoMatch
    ELSE IF item.matches = "true" THEN MatchForced
    ELSE IF item.matches = "false" \/ somePath(item.excludePaths, loc)
         THEN Excluded
    ELSE IF somePath(item.matchPaths, loc) THEN MatchPaths
    ELSE IF safeStartsWith(loc, item.url.value) THEN MatchUrl ELSE NoMatch

\* Faulty variant: the exclusion is tested before the forced match.
matchStateForItem_ExcludeFirst(item, loc) ==
    IF ~item.url.defined THEN NoMatch
    ELSE IF item.matches = "false" \/ somePath(item.excludePaths, loc)
         THEN Excluded
    ELSE IF item.matches = "true" THEN MatchForced
    ELSE IF somePath(item.matchPaths, loc) THEN MatchPaths
    ELSE LET matchesUrl == IF item.exactMatch = "true"
                           THEN safeEqual(loc, item.url.value)
                           ELSE safeStartsWith(loc, item.url.value)
         IN IF matchesUrl THEN MatchUrl ELSE NoMatch

\* Faulty variant: `matches === false` does not exclude.
matchStateForItem_NoForcedExclusion(item, loc) ==
    IF ~item.url.defined THEN NoMatch
    ELSE IF item.matches = "true" THEN MatchForced
    ELSE IF somePath(item.excludePaths, loc) THEN Excluded
    ELSE IF somePath(item.matchPaths, loc) THEN MatchPaths
    ELSE LET matchesUrl == IF item.exactMatch = "true"
                           THEN safeEqual(loc, item.url.value)
                           ELSE safeStartsWith(loc, item.url.value)
         IN IF matchesUrl THEN MatchUrl ELSE NoMatch

\* Faulty variant: matchPaths is tested before excludePaths.
matchStateForItem_PathsFirst(item, loc) ==
    IF ~item.url.defined THEN NoMatch
    ELSE IF item.matches = "true" THEN MatchForced
    ELSE IF item.matches = "false" THEN Excluded
    ELSE IF somePath(item.matchPaths, loc) THEN MatchPaths
    ELSE IF somePath(item.excludePaths, loc) THEN Excluded
    ELSE LET matchesUrl == IF item.exactMatch = "true"
                           THEN safeEqual(loc, item.url.value)
                           ELSE safeStartsWith(loc, item.url.value)
         IN IF matchesUrl THEN MatchUrl ELSE NoMatch

matchStateForItem(item, loc) ==
    IF ~item.url.defined THEN NoMatch
    ELSE IF item.matches = "true" THEN MatchForced
    ELSE IF item.matches = "false" \/ somePath(item.excludePaths, loc)
         THEN Excluded
    ELSE IF somePath(item.matchPaths, loc) THEN MatchPaths
    ELSE LET matchesUrl == IF item.exactMatch = "true"
                           THEN safeEqual(loc, item.url.value)
                           ELSE safeStartsWith(loc, item.url.value)
         IN IF matchesUrl THEN MatchUrl ELSE NoMatch

\* `state === MatchForced || state === MatchUrl || state === MatchPaths`
isMatch(state) == state \in {MatchForced, MatchUrl, MatchPaths}

\* Faulty variant: the sub-items are not filtered.
matchingSubNavItems_NoFilter(subNavItems, loc) ==
    [i \in 1..Len(subNavItems) |-> i]

\* subNavItems.filter(...): the matching sub-items, in the order of the
\* list.  A sub-item is the object at a position of subNavItems, so it is
\* named by its position.
matchingSubNavItems(subNavItems, loc) ==
    SelectSeq([i \in 1..Len(subNavItems) |-> i],
              LAMBDA i : isMatch(matchStateForItem(subNavItems[i], loc)))

\* The comparator of the sort: secondUrl.length - firstUrl.length.
compareUrlLength(subNavItems, first, second) ==
    Len(subNavItems[second].url.value) - Len(subNavItems[first].url.value)

\* Faulty variant: an element goes before the elements it compares equal to.
insertSorted_BeforeEqual(subNavItems, sorted, x) ==
    LET after == {k \in 1..Len(sorted) :
                     compareUrlLength(subNavItems, x, sorted[k]) <= 0}
        at == IF after = {} THEN Len(sorted) + 1
              ELSE CHOOSE k \in after : \A j \in after : k <= j
    IN SubSeq(sorted, 1, at - 1) \o <<x>> \o SubSeq(sorted, at, Len(sorted))

\* Array.prototype.sort, a stable sort (ECMAScript 2019): x goes before the
\* first element the comparator puts it before (a negative result).
insertSorted(subNavItems, sorted, x) ==
    LET after == {k \in 1..Len(sorted) :
                     compareUrlLength(subNavItems, x, sorted[k]) < 0}
        at == IF after = {} THEN Len(sorted) + 1
              ELSE CHOOSE k \in after : \A j \in after : k <= j
    IN SubSeq(sorted, 1, at - 1) \o <<x>> \o SubSeq(sorted, at, Len(sorted))

RECURSIVE sortByUrlLength(_, _)
sortByUrlLength(subNavItems, indices) ==
    IF indices = <<>> THEN <<>>
    ELSE insertSorted(subNavItems,
                      sortByUrlLength(subNavItems,
                                      SubSeq(indices, 1, Len(indices) - 1)),
                      indices[Len(indices)])

\* matchingSubNavItems.sort(...)[0]: the position of the selected sub-item,
\* Undefined for an empty array.
longestMatch(subNavItems, loc) ==
    LET sorted == sortByUrlLength(subNavItems,
                                  matchingSubNavItems(subNavItems, loc))
    IN IF sorted = <<>> THEN Undefined ELSE Some(sorted[1])

\* `item === longestMatch`
isLongestMatch(subNavItems, i, longest) == longest.defined /\ longest.value = i

\* Faulty variant: {...rest} is spread after matches, so the sub-item's own
\* matches wins.
subItemProps_SpreadLast(subNavItems, i, longest) ==
    IF subNavItems[i].matches # "undefined" THEN subNavItems[i]
    ELSE [subNavItems[i] EXCEPT
             !.matches = IF isLongestMatch(subNavItems, i, longest)
                         THEN "true" ELSE "false"]

\* The properties render passes to the Item of sub-item i:
\* {...rest, matches: item === longestMatch}
subItemProps(subNavItems, i, longest) ==
    [subNavItems[i] EXCEPT
        !.matches = IF isLongestMatch(subNavItems, i, longest)
                    THEN "true" ELSE "false"]

\* Item.render: what it decides about selection and the sub-navigation.
render(p, isExpanded, loc) ==
    LET subNavItems == IF p.subNavItems.defined THEN p.subNavItems.value
                       ELSE <<>>
    IN IF ~p.url.defined
       THEN [link |-> FALSE, selected |-> FALSE, showExpanded |-> FALSE,
             longestMatch |-> Undefined, secondaryNav |-> Undefined]
       ELSE LET state == matchStateForItem(p, loc)
                matching == matchingSubNavItems(subNavItems, loc)
                childIsActive == Len(matching) > 0
                selected == IF p.selected = "undefined" THEN isMatch(state)
                            ELSE p.selected = "true"
                showExpanded == selected \/ isExpanded \/ childIsActive
            IN IF Len(subNavItems) > 0 /\ showExpanded
               THEN LET longest == longestMatch(subNavItems, loc)
                    IN [link |-> TRUE, selected |-> selected,
                        showExpanded |-> showExpanded,
                        longestMatch |-> longest,
                        secondaryNav |->
                            Some([i \in 1..Len(subNavItems) |->
                                    subItemProps(subNavItems, i, longest)])]
               ELSE [link |-> TRUE, selected |-> selected,
                     showExpanded |-> showExpanded,
                     longestMatch |-> Undefined, secondaryNav |-> Undefined]

\* isNavItemActive: `selected || childIsActive`, where childIsActive is
\* undefined when subNavItems is.  The result is "true", "false" or
\* "undefined".
isNavItemActive(navItem, currentPath) ==
    LET state == matchStateForItem(navItem, currentPath)
        childIsActive ==
            IF ~navItem.subNavItems.defined THEN "undefined"
            ELSE IF Len(matchingSubNavItems(navItem.subNavItems.value,
                                            currentPath)) > 0
                 THEN "true" ELSE "false"
        selected == isMatch(state)
    IN IF selected THEN "true" ELSE childIsActive

(***************************************************************************)
(* Inputs: the paths the model draws locations, urls and path entries      *)
(* from.  The named paths are the ones of the component's documented       *)
(* examples.                                                               *)
(***************************************************************************)
pathEmpty == <<>>
pathRoot == <<"/">>
pathA == <<"/", "a">>
pathASlash == <<"/", "a", "/">>
pathAQuery == <<"/", "a", "?", "a">>
pathFoo == <<"/", "f", "o", "o">>
pathFooSlash == <<"/", "f", "o", "o", "/">>
pathFooBar == <<"/", "f", "o", "o", "/", "b", "a", "r">>
pathFooBarSlash == <<"/", "f", "o", "o", "/", "b", "a", "r", "/">>
pathFooDashBar == <<"/", "f", "o", "o", "-", "b", "a", "r">>
pathFooQuery == <<"/", "f", "o", "o", "?", "t", "a", "b", "=", "1">>
pathFooFragment == <<"/", "f", "o", "o", "#", "t">>

\* The locations of the specification that varies the location: every
\* string of the alphabet up to the bound, and the documented examples.
Locations ==
    StringsUpTo(Chars, MaxLen)
        \cup {pathFoo, pathFooSlash, pathFooBar, pathFooBarSlash,
              pathFooDashBar, pathFooQuery, pathFooFragment}

\* The locations of the specification that varies the rule.
RuleLocations ==
    {pathEmpty, pathRoot, pathA, pathASlash, pathAQuery, pathFoo,
     pathFooSlash, pathFooBar, pathFooBarSlash, pathFooDashBar,
     pathFooQuery, pathFooFragment}

Urls ==
    {Undefined}
        \cup {Some(p) : p \in {pathEmpty, pathRoot, pathA, pathASlash,
                               pathAQuery, pathFoo, pathFooSlash}}

ExcludeEntries == {pathA, pathFooBar}
MatchEntries == {pathRoot, pathFoo}

SeqsUpTo(S, n) == UNION {[1..k -> S] : k \in 0..n}

PathLists(entries) == {Undefined} \cup {Some(l) : l \in SeqsUpTo(entries, MaxPaths)}

\* ItemURLDetails
ItemURLDetails ==
    [url : Urls, matches : OptBool, exactMatch : OptBool,
     matchPaths : PathLists(MatchEntries),
     excludePaths : PathLists(ExcludeEntries)]

\* The items of the specification that varies the location: path lists of
\* one entry, or none.
SingleEntry(entries) == {Undefined} \cup {Some(<<e>>) : e \in entries}

LocationItems ==
    [url : Urls, matches : OptBool, exactMatch : OptBool,
     matchPaths : SingleEntry(MatchEntries),
     excludePaths : SingleEntry(ExcludeEntries)]

(***************************************************************************)
(* Classification of one item at one location.  SpecClassify draws the     *)
(* item from every combination of the optional properties, SpecLocation    *)
(* draws the location from every string up to the bound.                   *)
(***************************************************************************)
InitClassify ==
    /\ props \in ItemURLDetails
    /\ location \in RuleLocations
    /\ pc = "classify"
    /\ matchState = "pending"
    /\ expanded = FALSE
    /\ rendered = Undefined
    /\ active = "pending"
    /\ NotNormalized
    /\ NotClicked

InitLocation ==
    /\ props \in LocationItems
    /\ location \in Locations
    /\ pc = "classify"
    /\ matchState = "pending"
    /\ expanded = FALSE
    /\ rendered = Undefined
    /\ active = "pending"
    /\ NotNormalized
    /\ NotClicked

Classify ==
    /\ pc = "classify"
    /\ matchState' = matchStateForItem(props, location)
    /\ pc' = "classified"
    /\ UNCHANGED <<props, location, expanded, rendered, active,
                 normalizeVars, clickVars>>

NextClassify == Classify

SpecClassify == InitClassify /\ [][NextClassify]_vars

SpecLocation == InitLocation /\ [][NextClassify]_vars

(***************************************************************************)
(* An item with sub-items: render and isNavItemActive.                     *)
(***************************************************************************)
pathAB == <<"/", "a", "/", "b">>
pathABSlash == <<"/", "a", "/", "b", "/">>
pathX == <<"/", "x">>
pathXY == <<"/", "x", "/", "y">>

urlOnly(url) ==
    [url |-> Some(url), matches |-> "undefined", exactMatch |-> "undefined",
     matchPaths |-> Undefined, excludePaths |-> Undefined]

\* SubNavItem: its url is required.
SubNavItems ==
    {[urlOnly(u) EXCEPT !.matches = m] : u \in {pathA, pathAB}, m \in OptBool}
        \cup {urlOnly(pathXY),
              [urlOnly(pathAB) EXCEPT !.excludePaths = Some(<<pathAB>>)]}

ItemLocations == {pathA, pathABSlash, pathXY}

\* Props
ItemProps ==
    [url : {Undefined, Some(pathX), Some(pathA)},
     matches : {"undefined"}, exactMatch : {"undefined"},
     matchPaths : {Undefined}, excludePaths : {Undefined},
     selected : OptBool,
     subNavItems : {Undefined}
                     \cup {Some(l) : l \in SeqsUpTo(SubNavItems, MaxSub)}]

InitItem ==
    /\ props \in ItemProps
    /\ location \in ItemLocations
    /\ expanded \in BOOLEAN
    /\ pc = "mounted"
    /\ matchState = "pending"
    /\ rendered = Undefined
    /\ active = "pending"
    /\ NotNormalized
    /\ NotClicked

Render ==
    /\ pc = "mounted"
    /\ rendered' = Some(render(props, expanded, location))
    /\ pc' = "rendered"
    /\ UNCHANGED <<props, location, expanded, matchState, active,
                 normalizeVars, clickVars>>

IsNavItemActive ==
    /\ pc = "mounted"
    /\ active' = isNavItemActive(props, location)
    /\ pc' = "queried"
    /\ UNCHANGED <<props, location, expanded, matchState, rendered,
                 normalizeVars, clickVars>>

NextItem == Render \/ IsNavItemActive

SpecItem == InitItem /\ [][NextItem]_vars

(***************************************************************************)
(* normalizePathname applied to a path and then to its own result.         *)
(***************************************************************************)
Pathnames ==
    StringsUpTo(Chars, MaxLen + 1)
        \cup {pathFoo, pathFooSlash, pathFooBar, pathFooBarSlash,
              pathFooDashBar, pathFooQuery, pathFooFragment}

InitNormalize ==
    /\ location \in Pathnames
    /\ props = Undefined
    /\ pc = "normalize"
    /\ matchState = "pending"
    /\ expanded = FALSE
    /\ rendered = Undefined
    /\ active = "pending"
    /\ NotNormalized
    /\ NotClicked

Normalize ==
    /\ pc = "normalize"
    /\ normalized' = Some(normalizePathname(location))
    /\ pc' = "normalized"
    /\ UNCHANGED <<props, location, matchState, expanded, rendered, active,
                   renormalized, clickVars>>

NormalizeAgain ==
    /\ pc = "normalized"
    /\ renormalized' = Some(normalizePathname(normalized.value))
    /\ pc' = "renormalized"
    /\ UNCHANGED <<props, location, matchState, expanded, rendered, active,
                   normalized, clickVars>>

NextNormalize == Normalize \/ NormalizeAgain

SpecNormalize == InitNormalize /\ [][NextNormalize]_vars

(***************************************************************************)
(* The mounted Item: clicks and changes of the nav-bar breakpoint.         *)
(*                                                                         *)
(* navBarCollapsed() is the media query of the collapsed nav bar: its      *)
(* matches is the variable collapsed, and a change of it notifies the      *)
(* listeners registered at that moment.  A callback is named by the        *)
(* function it is, so that `onClick !== onNavDismiss` compares functions.  *)
(***************************************************************************)
\* Faulty variant: the test of the media query is inverted.
handleResize_Inverted(isExpanded, matches) ==
    IF matches THEN FALSE ELSE isExpanded

\* Item.handleResize: the value of state.expanded after it.
handleResize(isExpanded, matches) ==
    IF ~matches THEN FALSE ELSE isExpanded

Call(via, fn) == [via |-> via, fn |-> fn]

\* `subNavItems && subNavItems.length > 0`
hasSubNavItems(p) == p.subNavItems.defined /\ Len(p.subNavItems.value) > 0

\* `currentTarget.getAttribute('href') === location`: the link's href is the
\* url, a button has none.
hrefIsLocation(p, loc) == p.url.defined /\ p.url.value = loc

\* `if (onClick && !navBarCollapsed().matches) onClick()`
lastOnClick(p, matches) ==
    IF p.onClick.defined /\ ~matches
    THEN <<Call("onClick", p.onClick.value)>> ELSE <<>>

\* Faulty variant: the onNavDismiss branch does not return.
getClickHandler_NoReturn(p, isExpanded, loc, dismiss, matches) ==
    IF hasSubNavItems(p) /\ matches
    THEN [expanded |-> ~isExpanded, defaultPrevented |-> TRUE,
          calls |-> lastOnClick(p, matches)]
    ELSE IF dismiss.defined
    THEN [expanded |-> isExpanded,
          defaultPrevented |-> hrefIsLocation(p, loc),
          calls |-> <<Call("onNavDismiss", dismiss.value)>>
                      \o (IF p.onClick.defined
                             /\ p.onClick.value # dismiss.value
                          THEN <<Call("onClick", p.onClick.value)>>
                          ELSE <<>>)
                      \o lastOnClick(p, matches)]
    ELSE [expanded |-> isExpanded,
          defaultPrevented |-> hrefIsLocation(p, loc),
          calls |-> lastOnClick(p, matches)]

\* The handler Item.getClickHandler(onClick) returns, run on one click:
\* state.expanded after it, whether the default was prevented, and the
\* callbacks invoked, in order.
getClickHandler(p, isExpanded, loc, dismiss, matches) ==
    IF hasSubNavItems(p) /\ matches
    THEN [expanded |-> ~isExpanded, defaultPrevented |-> TRUE,
          calls |-> lastOnClick(p, matches)]
    ELSE IF dismiss.defined
    THEN [expanded |-> isExpanded,
          defaultPrevented |-> hrefIsLocation(p, loc),
          calls |-> <<Call("onNavDismiss", dismiss.value)>>
                      \o (IF p.onClick.defined
                             /\ p.onClick.value # dismiss.value
                          THEN <<Call("onClick", p.onClick.value)>>
                          ELSE <<>>)]
    ELSE [expanded |-> isExpanded,
          defaultPrevented |-> hrefIsLocation(p, loc),
          calls |-> lastOnClick(p, matches)]

\* The functions passed as callbacks: render passes the context's
\* onNavDismiss as the onClick of every sub-item.
dismissFn == "onNavDismiss"
clickFn == "onClick"

ClickProps ==
    [url : {Undefined, Some(pathA)},
     matches : {"undefined"}, exactMatch : {"undefined"},
     matchPaths : {Undefined}, excludePaths : {Undefined},
     subNavItems : {Undefined, Some(<<>>), Some(<<urlOnly(pathAB)>>),
                    Some(<<urlOnly(pathAB), urlOnly(pathA)>>)},
     onClick : {Undefined, Some(clickFn), Some(dismissFn)}]

InitClicks ==
    /\ props \in ClickProps
    /\ location \in {pathA, pathAB}
    /\ onNavDismiss \in {Undefined, Some(dismissFn)}
    /\ collapsed \in BOOLEAN
    /\ expanded = FALSE
    /\ mounted = "constructed"
    /\ pc = "constructor"
    /\ calls = <<>>
    /\ defaultPrevented = FALSE
    /\ matchState = "pending"
    /\ rendered = Undefined
    /\ active = "pending"
    /\ NotNormalized

\* componentDidMount: handleResize becomes a listener of the media query.
ComponentDidMount ==
    /\ mounted = "constructed"
    /\ mounted' = "mounted"
    /\ pc' = "componentDidMount"
    /\ UNCHANGED <<props, location, matchState, expanded, rendered, active,
                   normalizeVars, collapsed, onNavDismiss, calls,
                   defaultPrevented>>

\* componentWillUnmount: the listener is removed.
ComponentWillUnmount ==
    /\ mounted = "mounted"
    /\ mounted' = "unmounted"
    /\ pc' = "componentWillUnmount"
    /\ UNCHANGED <<props, location, matchState, expanded, rendered, active,
                   normalizeVars, collapsed, onNavDismiss, calls,
                   defaultPrevented>>

\* A click on the mounted Item's link or button.
Click ==
    /\ mounted = "mounted"
    /\ LET done == getClickHandler(props, expanded, location, onNavDismiss,
                                   collapsed)
       IN /\ expanded' = done.expanded
          /\ calls' = done.calls
          /\ defaultPrevented' = done.defaultPrevented
    /\ pc' = "click"
    /\ UNCHANGED <<props, location, matchState, rendered, active,
                   normalizeVars, mounted, collapsed, onNavDismiss>>

\* The window crosses the breakpoint: the media query changes and, when the
\* Item is mounted, handleResize runs.
BreakpointChange ==
    /\ collapsed' = ~collapsed
    /\ IF mounted = "mounted"
       THEN /\ expanded' = handleResize(expanded, collapsed')
            /\ pc' = "handleResize"
       ELSE UNCHANGED <<expanded, pc>>
    /\ UNCHANGED <<props, location, matchState, rendered, active,
                   normalizeVars, mounted, onNavDismiss, calls,
                   defaultPrevented>>

NextClicks ==
    \/ ComponentDidMount
    \/ ComponentWillUnmount
    \/ Click
    \/ BreakpointChange

SpecClicks == InitClicks /\ [][NextClicks]_vars

(***************************************************************************)
(* Properties of the classification.                                       *)
(***************************************************************************)
Classified == pc = "classified"

\* The normalized location starts with the normalized form of some entry.
StartsWithSome(entries) ==
    /\ entries.defined
    /\ \E i \in 1..Len(entries.value) :
          startsWith(normalizePathname(location),
                     normalizePathname(entries.value[i]))

\* The url comparison: equality when exactMatch, prefix otherwise.
UrlCompares ==
    IF props.exactMatch = "true"
    THEN normalizePathname(location) = normalizePathname(props.url.value)
    ELSE startsWith(normalizePathname(location),
                    normalizePathname(props.url.value))

\* C1: the classification is the result of the first applicable step of
\* the five-step order: url absent -> NoMatch; else matches true ->
\* MatchForced; else matches false or an excludePaths entry is a prefix of
\* the location -> Excluded; else a matchPaths entry is a prefix of the
\* location -> MatchPaths; else MatchUrl when the url comparison succeeds
\* and NoMatch when it fails.
C1_PrecedenceOrder ==
    Classified =>
        /\ ~props.url.defined => matchState = NoMatch
        /\ (props.url.defined /\ props.matches = "true")
              => matchState = MatchForced
        /\ (/\ props.url.defined
            /\ props.matches # "true"
            /\ (props.matches = "false" \/ StartsWithSome(props.excludePaths)))
              => matchState = Excluded
        /\ (/\ props.url.defined
            /\ props.matches = "undefined"
            /\ ~StartsWithSome(props.excludePaths)
            /\ StartsWithSome(props.matchPaths))
              => matchState = MatchPaths
        /\ (/\ props.url.defined
            /\ props.matches = "undefined"
            /\ ~StartsWithSome(props.excludePaths)
            /\ ~StartsWithSome(props.matchPaths))
              => matchState = (IF UrlCompares THEN MatchUrl ELSE NoMatch)

\* Every step of the order decides some classification: a url absent, a
\* forced match over an exclusion, an exclusion over a matchPaths entry, a
\* matchPaths entry over a failing url, and both outcomes of the url step.
C1_Witness ==
    /\ Classified
    /\ props.url.defined
    /\ props.matches = "undefined"
    /\ ~StartsWithSome(props.excludePaths)
    /\ StartsWithSome(props.matchPaths)
    /\ ~UrlCompares
    /\ matchState = MatchPaths

\* C2 as stated: matches true yields MatchForced whatever the url is, an
\* absent url included.
C2_ForcedAlways ==
    (Classified /\ props.matches = "true") => matchState = MatchForced

\* C2 as amended: with a url present, matches true yields MatchForced
\* whatever matchPaths and excludePaths hold and for every location; with
\* the url absent the result is NoMatch.
C2_ForcedWhenUrlPresent ==
    (Classified /\ props.matches = "true") =>
        matchState = (IF props.url.defined THEN MatchForced ELSE NoMatch)

C2_Witness ==
    /\ Classified
    /\ props.matches = "true"
    /\ props.url.defined
    /\ StartsWithSome(props.excludePaths)
    /\ ~UrlCompares
    /\ matchState = MatchForced

\* C3 as stated: matches false yields Excluded whatever the url is, an
\* absent url included.
C3_ExcludedAlways ==
    (Classified /\ props.matches = "false") => matchState = Excluded

\* C3 as amended: matches false yields Excluded when the url is present and
\* NoMatch when it is absent, hence never MatchForced, MatchUrl or
\* MatchPaths.
C3_ExcludedWhenUrlPresent ==
    (Classified /\ props.matches = "false") =>
        /\ matchState = (IF props.url.defined THEN Excluded ELSE NoMatch)
        /\ matchState \notin {MatchForced, MatchUrl, MatchPaths}

C3_Witness ==
    /\ Classified
    /\ props.matches = "false"
    /\ props.url.defined
    /\ StartsWithSome(props.matchPaths)
    /\ UrlCompares
    /\ matchState = Excluded

\* C4: with the url present and matches not true, a location that starts
\* with an excludePaths entry is Excluded, also when a matchPaths entry or
\* the url matches it.
C4_ExclusionPrecedence ==
    (/\ Classified
     /\ props.url.defined
     /\ props.matches # "true"
     /\ StartsWithSome(props.excludePaths)) => matchState = Excluded

\* excludePaths ["/foo/bar"] and matchPaths ["/foo"] at "/foo/bar/".
C4_Witness ==
    /\ Classified
    /\ props.url.defined
    /\ props.matches = "undefined"
    /\ props.excludePaths = Some(<<pathFooBar>>)
    /\ props.matchPaths = Some(<<pathFoo>>)
    /\ location = pathFooBarSlash
    /\ UrlCompares
    /\ matchState = Excluded

(***************************************************************************)
(* Locations that differ from l only by a trailing slash, by a query       *)
(* string or by a fragment.                                                *)
(***************************************************************************)
Front(s) == SubSeq(s, 1, Len(s) - 1)

TrailingSlashVariants(l) ==
    IF ~endsWith(l, "/") THEN {Append(l, "/")}
    ELSE IF ~endsWith(Front(l), "/") THEN {Front(l)}
    ELSE {}

QueryVariants(l) == {splitFirst(l, "?"), l \o <<"?", "a">>, l \o <<"?">>}

FragmentVariants(l) == {splitFirst(l, "#"), l \o <<"#", "a">>, l \o <<"#">>}

OnlyUrl(item, url, exactMatch) ==
    item = [url |-> Some(url), matches |-> "undefined",
            exactMatch |-> exactMatch,
            matchPaths |-> Undefined, excludePaths |-> Undefined]

\* C9: the classification depends on the location only through its
\* normalized form: the location classifies as its normalized form does (so
\* two locations with one normalized form classify the same), and so does
\* every location that differs from it only by a trailing slash, a query
\* string or a fragment; url "/foo" with exactMatch is MatchUrl at
\* "/foo" and at "/foo/", and url "/foo" is MatchUrl at "/foo?tab=1".
C9_NormalizedLocationOnly ==
    Classified =>
        /\ matchStateForItem(props, normalizePathname(location)) = matchState
        /\ \A m \in TrailingSlashVariants(location)
                      \cup QueryVariants(location)
                      \cup FragmentVariants(location) :
              matchStateForItem(props, m) = matchState
        /\ (OnlyUrl(props, pathFoo, "true")
              /\ location \in {pathFoo, pathFooSlash})
              => matchState = MatchUrl
        /\ (\E e \in OptBool : OnlyUrl(props, pathFoo, e)
              /\ e # "true" /\ location = pathFooQuery)
              => matchState = MatchUrl

\* Url "/foo" with exactMatch at "/foo": the raw strings differ and the
\* normalized ones are equal.
C9_Witness ==
    /\ Classified
    /\ OnlyUrl(props, pathFoo, "true")
    /\ location = pathFoo
    /\ normalizePathname(location) = pathFooSlash
    /\ matchState = MatchUrl

NoQueryOrFragment(s) == \A i \in 1..Len(s) : s[i] \notin {"?", "#"}

\* The location continues the url with a "/": further path segments.
ExtendsBySegments(loc, url) ==
    /\ NoQueryOrFragment(url)
    /\ startsWith(loc, IF endsWith(url, "/") THEN url ELSE Append(url, "/"))

\* The location continues the url inside a segment: the url is a string
\* prefix of it and the next character is no "/", "?" or "#".
ExtendsWithoutBoundary(loc, url) ==
    /\ NoQueryOrFragment(url)
    /\ ~endsWith(url, "/")
    /\ startsWith(loc, url)
    /\ Len(loc) > Len(url)
    /\ loc[Len(url) + 1] \notin {"/", "?", "#"}

\* C10: for an item with only url set: without exactMatch a location that
\* extends the url by further segments is MatchUrl and one that shares the
\* url only as a string prefix inside a segment is NoMatch; with exactMatch
\* the deeper location is NoMatch and MatchUrl is given exactly to the
\* locations whose normalized form equals the normalized url.
C10_PrefixVersusExact ==
    Classified =>
        \A e \in OptBool :
            (props.url.defined /\ OnlyUrl(props, props.url.value, e)) =>
                LET url == props.url.value
                IN /\ (e # "true" /\ ExtendsBySegments(location, url))
                        => matchState = MatchUrl
                   /\ ExtendsWithoutBoundary(location, url)
                        => matchState = NoMatch
                   /\ e = "true" =>
                        /\ matchState \in {MatchUrl, NoMatch}
                        /\ matchState = MatchUrl
                             <=> normalizePathname(location)
                                   = normalizePathname(url)
                   /\ (url = pathFoo /\ location = pathFooBar)
                        => matchState = (IF e = "true" THEN NoMatch
                                         ELSE MatchUrl)
                   /\ (url = pathFoo /\ location = pathFooDashBar)
                        => matchState = NoMatch

\* Url "/foo" at "/foo-bar": a string prefix that is no path prefix.
C10_Witness ==
    /\ Classified
    /\ OnlyUrl(props, pathFoo, "undefined")
    /\ location = pathFooDashBar
    /\ startsWith(location, props.url.value)
    /\ matchState = NoMatch

(***************************************************************************)
(* Properties of the selection among the sub-items.                        *)
(***************************************************************************)
Rendered == pc = "rendered"

SubRules == IF props.subNavItems.defined THEN props.subNavItems.value ELSE <<>>

\* The positions of the sub-rules that are active at the location.
ActiveSubRules ==
    {i \in 1..Len(SubRules) :
        matchStateForItem(SubRules[i], location)
            \in {MatchForced, MatchUrl, MatchPaths}}

UrlLength(i) == Len(SubRules[i].url.value)

\* C5: the selected sub-rule is an active one whose url is longest among
\* the active ones, and the first of the list among those of that length;
\* of [{url: "/a"}, {url: "/a/b"}] at "/a/b/" it is the "/a/b" rule.
C5_LongestFirst ==
    (Rendered /\ rendered.value.longestMatch.defined) =>
        LET best == rendered.value.longestMatch.value
        IN /\ best \in ActiveSubRules
           /\ \A j \in ActiveSubRules : UrlLength(j) <= UrlLength(best)
           /\ \A j \in ActiveSubRules :
                 UrlLength(j) = UrlLength(best) => best <= j
           /\ (SubRules = <<urlOnly(pathA), urlOnly(pathAB)>>
                 /\ location = pathABSlash) => best = 2

\* Two active sub-rules with different urls of the greatest length, after a
\* shorter active one: the first of the two is selected.
C5_Witness ==
    /\ Rendered
    /\ rendered.value.longestMatch.defined
    /\ \E i, j \in ActiveSubRules :
          /\ i < j
          /\ UrlLength(i) = UrlLength(j)
          /\ rendered.value.longestMatch.value = i
          /\ \E k \in ActiveSubRules : k < i /\ UrlLength(k) < UrlLength(i)

\* C6: a sub-rule is selected exactly when some sub-rule is active at the
\* location (none for an empty list); with none selected no rendered
\* sub-entry is flagged; an Excluded or NoMatch rule is never selected.
C6_NoneWhenNoneActive ==
    Rendered =>
        /\ longestMatch(SubRules, location).defined <=> ActiveSubRules # {}
        /\ props.url.defined =>
              (rendered.value.longestMatch.defined <=> ActiveSubRules # {})
        /\ SubRules = <<>> => ~rendered.value.longestMatch.defined
        /\ (~rendered.value.longestMatch.defined
              /\ rendered.value.secondaryNav.defined) =>
              \A i \in 1..Len(SubRules) :
                  rendered.value.secondaryNav.value[i].matches = "false"
        /\ rendered.value.longestMatch.defined =>
              matchStateForItem(SubRules[rendered.value.longestMatch.value],
                                location) \notin {Excluded, NoMatch}

\* A rendered sub-navigation none of whose sub-rules is active.
C6_Witness ==
    /\ Rendered
    /\ rendered.value.secondaryNav.defined
    /\ Len(SubRules) > 1
    /\ ActiveSubRules = {}
    /\ \E i \in 1..Len(SubRules) :
          matchStateForItem(SubRules[i], location) = Excluded
    /\ ~rendered.value.longestMatch.defined

\* The rendered sub-entries that classify as active at the location.
ActiveSubEntries ==
    {i \in 1..Len(SubRules) :
        matchStateForItem(rendered.value.secondaryNav.value[i], location)
            \in {MatchForced, MatchUrl, MatchPaths}}

\* C7: in a rendered sub-navigation the selected sub-entry is passed
\* matches = true and every other one matches = false, so exactly one
\* rendered sub-entry is active when some sub-rule is, and none otherwise.
C7_ExactlyOneHighlighted ==
    (Rendered /\ rendered.value.secondaryNav.defined) =>
        /\ Len(rendered.value.secondaryNav.value) = Len(SubRules)
        /\ \A i \in 1..Len(SubRules) :
              rendered.value.secondaryNav.value[i].matches =
                  (IF rendered.value.longestMatch.defined
                      /\ rendered.value.longestMatch.value = i
                   THEN "true" ELSE "false")
        /\ Cardinality(ActiveSubEntries)
              = (IF ActiveSubRules # {} THEN 1 ELSE 0)
        /\ ActiveSubRules # {} =>
              ActiveSubEntries = {rendered.value.longestMatch.value}

\* Several sub-rules active at the location, two of them equal in every
\* property, one of them forced by its own matches.
C7_Witness ==
    /\ Rendered
    /\ rendered.value.secondaryNav.defined
    /\ Cardinality(ActiveSubRules) > 2
    /\ \E i, j \in ActiveSubRules : i # j /\ SubRules[i] = SubRules[j]
    /\ \E i \in ActiveSubRules :
          /\ SubRules[i].matches = "true"
          /\ rendered.value.longestMatch.value # i
    /\ Cardinality(ActiveSubEntries) = 1

\* C8: isNavItemActive returns true exactly when the item or one of its
\* sub-rules is active at the location, and false in every other case,
\* also without sub-rules.
C8_ActiveIsBoolean ==
    pc = "queried" =>
        active = (IF matchStateForItem(props, location)
                        \in {MatchForced, MatchUrl, MatchPaths}
                     \/ ActiveSubRules # {}
                  THEN "true" ELSE "false")

(***************************************************************************)
(* Properties of the normalization.                                        *)
(***************************************************************************)
\* C11: normalizing a normalized path changes nothing, for every path, the
\* empty one and the ones with "?" and "#" in either order included.
C11_NormalizeIdempotent ==
    pc = "renormalized" => renormalized.value = normalized.value

\* A path with a "#" before a "?" whose normalized form differs from it.
C11_Witness ==
    /\ pc = "renormalized"
    /\ \E i, j \in 1..Len(location) :
          i < j /\ location[i] = "#" /\ location[j] = "?"
    /\ normalized.value # location
    /\ renormalized.value = normalized.value

(***************************************************************************)
(* Properties of the mounted Item.                                         *)
(***************************************************************************)
\* C12: from expanded = false, over clicks and breakpoint changes of the
\* mounted Item, expanded changes only by a click on an item with
\* sub-entries while the nav bar is collapsed, which toggles it, or by a
\* resize notification while the nav bar is not collapsed, which sets it to
\* false; so while the Item is not unmounted, expanded implies that the nav
\* bar is collapsed and the item has sub-entries.
C12_ExpandedOnlyWhenCollapsed ==
    /\ [](mounted # "unmounted"
            => (expanded => collapsed /\ hasSubNavItems(props)))
    /\ [][expanded' # expanded =>
            \/ /\ Click
               /\ hasSubNavItems(props)
               /\ collapsed
               /\ expanded' = ~expanded
            \/ /\ BreakpointChange
               /\ mounted = "mounted"
               /\ ~collapsed'
               /\ expanded' = FALSE]_vars

\* A click has expanded the mounted item.
C12_Witness ==
    /\ mounted = "mounted"
    /\ pc = "click"
    /\ hasSubNavItems(props)
    /\ collapsed
    /\ expanded

\* The callbacks the last click invoked through onNavDismiss() and through
\* onClick().
CallsVia(via) == {i \in 1..Len(calls) : calls[i].via = via}

\* The last click toggled expanded.
Toggled == hasSubNavItems(props) /\ collapsed

\* C13: a click invokes onNavDismiss at most once and onClick at most once:
\* neither when it toggles expanded; otherwise, with onNavDismiss present,
\* onNavDismiss once and onClick once exactly when it is present and is
\* another function than onNavDismiss; with onNavDismiss absent, onClick
\* once exactly when it is present and the nav bar is not collapsed.
C13_CallbacksAtMostOnce ==
    pc = "click" =>
        /\ Cardinality(CallsVia("onNavDismiss")) <= 1
        /\ Cardinality(CallsVia("onClick")) <= 1
        /\ Toggled => calls = <<>>
        /\ (~Toggled /\ onNavDismiss.defined) =>
              /\ Cardinality(CallsVia("onNavDismiss")) = 1
              /\ Cardinality(CallsVia("onClick")) = 1
                    <=> (props.onClick.defined
                            /\ props.onClick.value # onNavDismiss.value)
              /\ calls[1] = Call("onNavDismiss", onNavDismiss.value)
        /\ (~Toggled /\ ~onNavDismiss.defined) =>
              /\ CallsVia("onNavDismiss") = {}
              /\ Cardinality(CallsVia("onClick")) = 1
                    <=> (props.onClick.defined /\ ~collapsed)
        /\ \A i \in CallsVia("onClick") : calls[i].fn = props.onClick.value

\* A click on an item whose onClick is the context's onNavDismiss, as
\* render passes it to a sub-item: the function is invoked once.
C13_Witness ==
    /\ pc = "click"
    /\ ~Toggled
    /\ ~collapsed
    /\ onNavDismiss.defined
    /\ props.onClick = onNavDismiss
    /\ calls = <<Call("onNavDismiss", dismissFn)>>

====
